---- MODULE Spec2Model ----
(***************************************************************************)
(* Model of src/main.py: the Spotify -> Discord webhook poller.            *)
(* State: the module-level globals (access_token, token_expiry, headers,   *)
(* last_track_id, profile, running), the locals of main() and              *)
(* process_track() that live across remote calls, a clock, and history     *)
(* variables used only to state properties.                                *)
(* One action per remote call / control step of main(); the signal         *)
(* handler may run between any two steps.                                  *)
(***************************************************************************)
EXTENDS Integers, Sequences, FiniteSets, TLC

\* ---- program constants (src/main.py) ----
TOKEN_EXPIRY_BUFFER == 300
MAX_RETRIES == 3
RETRY_DELAY == 5
POLLING_INTERVAL == 15
FALLBACK_COLOR == 1947988
DEFAULT_EXPIRES_IN == 3600

\* ---- bounds of the model ----
MaxTime == 30
NTracks == 2

ScenarioMaxTime == 60
StableFrom == 10
LiveMaxTime == 40

\* ---- encodings of Python's None ----
None == 0
NoExpiry == -1

\* Sample access tokens: two values tell a renewed token from the old one.
Tokens == {1, 2}
TrackIds == 1..NTracks

\* Time-to-live values a renewal response may carry (expires_in, seconds);
\* a response without the field gets DEFAULT_EXPIRES_IN.
ExpiresIn == {60, 330, DEFAULT_EXPIRES_IN}

\* Responses of the token endpoint as refresh_access_token sees them.
RenewalResponses ==
    [kind : {"ok"}, tok : Tokens, ttl : ExpiresIn]
    \cup [kind : {"request_error", "malformed"}, tok : {None}, ttl : {0}]

\* Responses of GET /v1/me as get_profile sees them.
ProfileResponses == {"ok", "request_error", "malformed"}

\* Responses of GET /v1/me/player/currently-playing.
\*   nocontent : HTTP 204                      -> data = None
\*   empty     : 200 with body {}              -> falsy dict
\*   noitem    : 200, dict with item null      -> truthy dict, no item
\*   notdict   : 200, JSON value without .get  -> AttributeError in process_track
\*   request_error : transport error or HTTP error status (raised)
\*   item      : 200, dict with an item; id = None encodes a missing/empty id,
\*               wf says whether artists/name/album/images/external_urls parse
NoData == [kind |-> "nocontent", id |-> None, wf |-> FALSE]
TrackResponses ==
    [kind : {"nocontent", "empty", "noitem", "notdict", "request_error"},
     id : {None}, wf : {FALSE}]
    \cup [kind : {"item"}, id : {None} \cup TrackIds, wf : BOOLEAN]

\* Outcomes of the album-art fetch + ColorThief, and sample RGB triples.
ColorOutcomes == {"ok", "request_error", "decode_error"}
SampleRGB == {<<18, 52, 86>>}

\* Outcomes of the Last.fm user.getInfo call.
\*   ok            : {"user": {"playcount": "1234"}}
\*   nouser        : JSON object without "user"
\*   request_error : transport error / non-2xx
\*   bad_json      : body is not JSON (ValueError)
\*   bad_shape     : JSON that is not an object, or "user" not an object
ScrobbleOutcomes == {"ok", "nouser", "request_error", "bad_json", "bad_shape"}

VARIABLES
    pc,             \* position of main(): top, profile, poll, process, color,
                    \* scrobbles, webhook, sleep, stopped
    running,        \* global running
    exitCode,       \* -1 while the process lives, else its exit status
    stopReason,     \* "none", "signal", "exhausted"
    access_token,   \* global access_token (None or a token)
    token_expiry,   \* global token_expiry (NoExpiry or a time)
    headers,        \* token carried by headers["Authorization"] (None for {})
    last_track_id,  \* global last_track_id
    profile,        \* global profile (FALSE = None, TRUE = fetched dict)
    retry_count,    \* local of main()
    sleep_time,     \* argument of the pending time.sleep
    data,           \* local of main(): this cycle's now-playing response
    track_id,       \* local of process_track
    embed_color,    \* local of process_track
    total_scrobbles,\* local of process_track
    now,            \* clock, seconds
    calls,          \* history: remote calls made in the current cycle
    ens,            \* history: the last ensure_valid_token call
    cyc,            \* history: facts about the current cycle
    hist            \* history: facts across cycles

vars == <<pc, running, exitCode, stopReason, access_token, token_expiry, headers,
          last_track_id, profile, retry_count, sleep_time, data, track_id,
          embed_color, total_scrobbles, now, calls, ens, cyc, hist>>

credVars == <<access_token, token_expiry, headers>>
procVars == <<track_id, embed_color, total_scrobbles>>
exitVars == <<running, exitCode, stopReason>>

NoEns == [called |-> FALSE, at |-> 0, tokBefore |-> None, expBefore |-> NoExpiry,
          hdrBefore |-> None, requests |-> 0, raised |-> "none",
          tok |-> None, ttl |-> 0]
\* The embed sent to the webhook: the item its title, artist and album
\* were read from, its colour and its footer count.
NoPayload == [track |-> None, color |-> 0, footer |-> ""]
NoCyc == [id |-> None, wf |-> FALSE, lastBefore |-> None, retryOf |-> None,
          done |-> FALSE, outcome |-> "running", scrobbles |-> "none",
          color |-> "none", sent |-> "none", seen |-> FALSE, slept |-> 0,
          payload |-> NoPayload]
\* counting says whether the run keeps totals: the identities reported so
\* far (trace), the cycles whose identity differed from last_track_id
\* (changes) and the webhook requests made (webhooks).
NoHist == [counting |-> FALSE, trace |-> <<>>, changes |-> 0, webhooks |-> 0,
           failed_id |-> None, reqRun |-> 0, reqSinceOk |-> 0,
           excStreak |-> 0, sigAt |-> "none", sigRetry |-> 0]

\* The state after the module-level assignments and the start of main(),
\* with history record h.
InitWith(h) ==
    /\ pc = "top"
    /\ running = TRUE
    /\ exitCode = -1
    /\ stopReason = "none"
    /\ access_token = None
    /\ token_expiry = NoExpiry
    /\ headers = None
    /\ last_track_id = None
    /\ profile = FALSE
    /\ retry_count = 0
    /\ sleep_time = 0
    /\ data = NoData
    /\ track_id = None
    /\ embed_color = 0
    /\ total_scrobbles = ""
    /\ now = 0
    /\ calls = <<>>
    /\ ens = NoEns
    /\ cyc = NoCyc
    /\ hist = h

Init == InitWith(NoHist)

\* ---------------------------------------------------------------------
\* CredentialBroker: refresh_access_token / ensure_valid_token
\* ---------------------------------------------------------------------

\* refresh_access_token(): the value returned or the exception raised for
\* a token-endpoint response r.  The function assigns no global.
refresh_access_token_noclock(r) ==
    CASE r.kind = "ok" -> [raised |-> "none", tok |-> r.tok, expiry |-> r.ttl]
      [] r.kind = "request_error" ->
            [raised |-> "RequestException", tok |-> None, expiry |-> NoExpiry]
      [] OTHER -> [raised |-> "KeyError", tok |-> None, expiry |-> NoExpiry]

refresh_access_token(r) ==
    CASE r.kind = "ok" -> [raised |-> "none", tok |-> r.tok, expiry |-> now + r.ttl]
      [] r.kind = "request_error" ->
            [raised |-> "RequestException", tok |-> None, expiry |-> NoExpiry]
      [] OTHER -> [raised |-> "KeyError", tok |-> None, expiry |-> NoExpiry]

\* The condition of ensure_valid_token under which it renews.
NeedsRefresh_strict ==
    \/ access_token = None
    \/ token_expiry = NoExpiry
    \/ now > token_expiry - TOKEN_EXPIRY_BUFFER

NeedsRefresh ==
    \/ access_token = None
    \/ token_expiry = NoExpiry
    \/ now >= token_expiry - TOKEN_EXPIRY_BUFFER

\* ensure_valid_token(): the globals after the call, the exception it lets
\* through, and the number of renewal requests it made.
ensure_valid_token_staleheader(r) ==
    IF NeedsRefresh
    THEN LET res == refresh_access_token(r) IN
         IF res.raised = "none"
         THEN [raised |-> "none", access_token |-> res.tok,
               token_expiry |-> res.expiry, headers |-> headers, requests |-> 1]
         ELSE [raised |-> res.raised, access_token |-> access_token,
               token_expiry |-> token_expiry, headers |-> headers, requests |-> 1]
    ELSE [raised |-> "none", access_token |-> access_token,
          token_expiry |-> token_expiry, headers |-> headers, requests |-> 0]

ensure_valid_token(r) ==
    IF NeedsRefresh
    THEN LET res == refresh_access_token(r) IN
         IF res.raised = "none"
         THEN [raised |-> "none", access_token |-> res.tok,
               token_expiry |-> res.expiry, headers |-> res.tok, requests |-> 1]
         ELSE [raised |-> res.raised, access_token |-> access_token,
               token_expiry |-> token_expiry, headers |-> headers, requests |-> 1]
    ELSE [raised |-> "none", access_token |-> access_token,
          token_expiry |-> token_expiry, headers |-> headers, requests |-> 0]

\* History record of one ensure_valid_token call with response r, result e.
EnsRecord(r, e) ==
    [called |-> TRUE, at |-> now, tokBefore |-> access_token,
     expBefore |-> token_expiry, hdrBefore |-> headers,
     requests |-> e.requests, raised |-> e.raised,
     tok |-> IF e.requests = 1 THEN r.tok ELSE None,
     ttl |-> IF e.requests = 1 THEN r.ttl ELSE 0]

\* ---------------------------------------------------------------------
\* main(): the three ways a cycle ends
\* ---------------------------------------------------------------------

\* History across cycles: reqRun counts the request-failed cycles that end
\* the run so far with nothing else in between, reqSinceOk those since the
\* last completed cycle, excStreak the trailing cycles that ended in the
\* generic handler.
HistAfter(h, outcome) ==
    [h EXCEPT
        !.reqRun = IF outcome = "req" THEN h.reqRun + 1 ELSE 0,
        !.reqSinceOk = CASE outcome = "ok" -> 0
                         [] outcome = "req" -> h.reqSinceOk + 1
                         [] OTHER -> h.reqSinceOk,
        !.excStreak = IF outcome = "exc"
                      THEN (IF h.excStreak < MAX_RETRIES
                            THEN h.excStreak + 1 ELSE h.excStreak)
                      ELSE 0]

\* Python truthiness of main()'s local data.
Truthy_always(d) == TRUE
Truthy(d) == d.kind \notin {"nocontent", "empty"}

\* retry_count after each kind of cycle end.
RetryAfterSuccess_keep == retry_count
RetryAfterSuccess == 0
RetryAfterException_count == retry_count + 1
RetryAfterException == retry_count

\* lines 374-379: the try block ran to its end.
MainSuccess(c, h) ==
    /\ retry_count' = RetryAfterSuccess
    /\ sleep_time' = IF Truthy(data) THEN POLLING_INTERVAL ELSE POLLING_INTERVAL * 2
    /\ pc' = "sleep"
    /\ cyc' = [c EXCEPT !.done = TRUE, !.outcome = "ok"]
    /\ hist' = HistAfter(h, "ok")
    /\ UNCHANGED exitVars

\* lines 381-389: except requests.RequestException.
MainRequestException(c, h) ==
    /\ retry_count' = retry_count + 1
    /\ cyc' = [c EXCEPT !.outcome = "req"]
    /\ hist' = HistAfter(h, "req")
    /\ IF retry_count + 1 >= MAX_RETRIES
       THEN \* break; main() returns and the interpreter exits normally
            /\ pc' = "stopped"
            /\ exitCode' = 0
            /\ stopReason' = "exhausted"
            /\ UNCHANGED <<running, sleep_time>>
       ELSE /\ pc' = "sleep"
            /\ sleep_time' = RETRY_DELAY
            /\ UNCHANGED exitVars

\* lines 391-393: except Exception.
MainException(c, h) ==
    /\ retry_count' = RetryAfterException
    /\ cyc' = [c EXCEPT !.outcome = "exc"]
    /\ hist' = HistAfter(h, "exc")
    /\ pc' = "sleep"
    /\ sleep_time' = RETRY_DELAY
    /\ UNCHANGED exitVars

MainRaise(exc, c, h) ==
    IF exc = "RequestException" THEN MainRequestException(c, h) ELSE MainException(c, h)

\* ---------------------------------------------------------------------
\* main(): the loop
\* ---------------------------------------------------------------------

\* line 363-366: `while running:` and the test `profile is None`.
\* running is cleared only by signal_handler, which exits the process, so
\* the loop test never sees it false.
NeedsProfile_always == TRUE
NeedsProfile_never == FALSE
NeedsProfile == profile = FALSE

CycleStart ==
    /\ pc = "top"
    /\ running
    /\ pc' = IF NeedsProfile THEN "profile" ELSE "poll"
    /\ calls' = <<>>
    /\ cyc' = NoCyc
    /\ ens' = NoEns
    /\ data' = NoData
    /\ track_id' = None
    /\ embed_color' = 0
    /\ total_scrobbles' = ""
    /\ UNCHANGED <<exitVars, credVars, last_track_id, profile, retry_count,
                   sleep_time, now, hist>>

CallsAfterEnsure(e) == IF e.requests = 1 THEN Append(calls, "renew") ELSE calls

\* line 367: profile = get_profile(), the token endpoint answering from R
\* and GET /v1/me from P.
GetProfileOn(R, P) ==
    /\ pc = "profile"
    /\ \E r \in R, p \in P :
         LET e == ensure_valid_token(r) IN
         /\ access_token' = e.access_token
         /\ token_expiry' = e.token_expiry
         /\ headers' = e.headers
         /\ ens' = EnsRecord(r, e)
         /\ IF e.raised # "none"
            THEN /\ calls' = CallsAfterEnsure(e)
                 /\ profile' = profile
                 /\ MainRaise(e.raised, cyc, hist)
            ELSE /\ calls' = Append(CallsAfterEnsure(e), "profile")
                 /\ CASE p = "ok" ->
                           /\ profile' = TRUE
                           /\ pc' = "poll"
                           /\ UNCHANGED <<exitVars, retry_count, sleep_time, cyc, hist>>
                      [] p = "request_error" ->
                           /\ profile' = profile
                           /\ MainRequestException(cyc, hist)
                      [] OTHER ->
                           /\ profile' = profile
                           /\ MainException(cyc, hist)
    /\ UNCHANGED <<last_track_id, data, procVars, now>>

GetProfile == GetProfileOn(RenewalResponses, ProfileResponses)

\* line 371: data = get_current_track(), the token endpoint answering
\* from R and the now-playing endpoint from T.
GetCurrentTrackOn(R, T) ==
    /\ pc = "poll"
    /\ \E r \in R, t \in T :
         LET e == ensure_valid_token(r) IN
         /\ access_token' = e.access_token
         /\ token_expiry' = e.token_expiry
         /\ headers' = e.headers
         /\ ens' = EnsRecord(r, e)
         /\ IF e.raised # "none"
            THEN /\ calls' = CallsAfterEnsure(e)
                 /\ data' = data
                 /\ MainRaise(e.raised, cyc, hist)
            ELSE /\ calls' = Append(CallsAfterEnsure(e), "nowplaying")
                 /\ IF t.kind = "request_error"
                    THEN /\ data' = data
                         /\ MainRequestException(cyc, hist)
                    ELSE /\ data' = t
                         /\ pc' = "process"
                         /\ UNCHANGED <<exitVars, retry_count, sleep_time, cyc, hist>>
    /\ UNCHANGED <<last_track_id, profile, procVars, now>>

GetCurrentTrack == GetCurrentTrackOn(RenewalResponses, TrackResponses)

\* line 299: the dedupe test of process_track.
IsNewTrack_nodedupe(id) == id # None
IsNewTrack(id) == id # None /\ id # last_track_id

\* lines 340-343: a KeyError / IndexError (or any other exception) raised
\* while the item's fields are read is logged; process_track returns.
OnTrackParseError_propagate(c, h) == MainException(c, h)
OnTrackParseError(c, h) == MainSuccess(c, h)

\* lines 310-314: what process_track does first once the fields are read:
\* the colour lookup, then the scrobble lookup, then the webhook.
EnrichmentStart_skip == "webhook"
EnrichmentStart == "color"

\* line 372: process_track(data), up to the first enrichment call
\* (lines 293-308).
ProcessTrack ==
    /\ pc = "process"
    /\ LET c == [cyc EXCEPT !.id = data.id, !.wf = data.wf,
                            !.lastBefore = last_track_id,
                            !.retryOf = hist.failed_id,
                            !.seen = TRUE]
           h == [hist EXCEPT
                    !.failed_id = None,
                    !.trace = IF hist.counting THEN Append(@, data.id) ELSE @,
                    !.changes = IF hist.counting /\ data.id # None
                                      /\ data.id # last_track_id
                                THEN @ + 1 ELSE @]
       IN
       CASE data.kind = "notdict" ->
               \* data.get raises AttributeError outside the try block
               /\ MainException(c, h)
               /\ UNCHANGED track_id
         [] data.kind \in {"nocontent", "empty", "noitem"} ->
               /\ MainSuccess(c, h)
               /\ UNCHANGED track_id
         [] OTHER ->
               /\ track_id' = data.id
               /\ IF ~IsNewTrack(data.id)
                  THEN MainSuccess(c, h)
                  ELSE IF ~data.wf
                       THEN OnTrackParseError(c, h)
                       ELSE /\ pc' = EnrichmentStart
                            /\ cyc' = c
                            /\ hist' = h
                            /\ UNCHANGED <<exitVars, retry_count, sleep_time>>
    /\ UNCHANGED <<credVars, last_track_id, profile, data, embed_color,
                   total_scrobbles, now, calls, ens>>

RGBToInt(rgb) == rgb[1] * 65536 + rgb[2] * 256 + rgb[3]

\* get_dominant_color(image_url): the value returned for each outcome.
get_dominant_color(o, rgb) ==
    IF o = "ok" THEN RGBToInt(rgb) ELSE FALLBACK_COLOR

\* line 311: embed_color = get_dominant_color(album_art), the image fetch
\* ending in one of the outcomes O.
GetDominantColorOn(O) ==
    /\ pc = "color"
    /\ \E o \in O, rgb \in SampleRGB :
         /\ embed_color' = get_dominant_color(o, rgb)
         /\ cyc' = [cyc EXCEPT !.color = o]
    /\ calls' = Append(calls, "art")
    /\ pc' = "scrobbles"
    /\ UNCHANGED <<exitVars, credVars, last_track_id, profile, retry_count,
                   sleep_time, data, track_id, total_scrobbles, now, ens, hist>>

GetDominantColor == GetDominantColorOn(ColorOutcomes)

\* get_total_scrobbles(): the value returned or the exception raised.
get_total_scrobbles(o) ==
    CASE o = "ok" -> [raised |-> "none", value |-> "1234"]
      [] o \in {"nouser", "request_error", "bad_json"} ->
            [raised |-> "none", value |-> "0"]
      [] OTHER -> \* .get on a non-dict: AttributeError, not in the except list
            [raised |-> "AttributeError", value |-> ""]

\* line 314: total_scrobbles = get_total_scrobbles(), Last.fm answering
\* with one of the outcomes O.
GetTotalScrobblesOn(O) ==
    /\ pc = "scrobbles"
    /\ calls' = Append(calls, "lastfm")
    /\ \E o \in O :
         LET res == get_total_scrobbles(o)
             c == [cyc EXCEPT !.scrobbles = o]
         IN
         IF res.raised = "none"
         THEN /\ total_scrobbles' = res.value
              /\ pc' = "webhook"
              /\ cyc' = c
              /\ UNCHANGED <<exitVars, retry_count, sleep_time, hist>>
         ELSE \* caught by `except Exception` at line 342
              /\ total_scrobbles' = total_scrobbles
              /\ MainSuccess(c, hist)
    /\ UNCHANGED <<credVars, last_track_id, profile, data, track_id,
                   embed_color, now, ens>>

GetTotalScrobbles == GetTotalScrobblesOn(ScrobbleOutcomes)

\* lines 336-338: last_track_id after send_discord_webhook returned ok.
LastTrackAfterSend_never(ok) == last_track_id
LastTrackAfterSend(ok) == IF ok THEN track_id ELSE last_track_id

\* lines 336-338: send_discord_webhook(payload) and the dedupe update, the
\* webhook answering with one of the results B (TRUE = 2xx).
SendDiscordWebhookOn(B) ==
    /\ pc = "webhook"
    /\ calls' = Append(calls, "webhook")
    /\ \E ok \in B :
         /\ last_track_id' = LastTrackAfterSend(ok)
         /\ MainSuccess([cyc EXCEPT
                            !.sent = IF ok THEN "ok" ELSE "fail",
                            !.payload = [track |-> data.id, color |-> embed_color,
                                         footer |-> total_scrobbles]],
                        [hist EXCEPT
                            !.failed_id = IF ok THEN None ELSE track_id,
                            !.webhooks = IF hist.counting THEN @ + 1 ELSE @])
    /\ UNCHANGED <<credVars, profile, data, procVars, now, ens>>

SendDiscordWebhook == SendDiscordWebhookOn(BOOLEAN)

\* time.sleep(sleep_time) returns; the clock is followed up to limit.
SleepUntil(limit) ==
    /\ pc = "sleep"
    /\ now + sleep_time <= limit
    /\ now' = now + sleep_time
    /\ pc' = "top"
    /\ sleep_time' = 0
    /\ cyc' = [cyc EXCEPT !.slept = @ + 1]
    /\ UNCHANGED <<exitVars, credVars, last_track_id, profile, retry_count,
                   data, procVars, calls, ens, hist>>

Sleep == SleepUntil(MaxTime)

\* signal_handler(signum, frame): SIGINT / SIGTERM at any point of main().
\* A signal that arrives while pc is at a remote call arrives before or
\* during that call: the step of the call is then never taken.
signal_handler_noexit ==
    /\ pc # "stopped"
    /\ running' = FALSE
    /\ stopReason' = "signal"
    /\ hist' = [hist EXCEPT !.sigAt = pc, !.sigRetry = retry_count]
    /\ UNCHANGED <<pc, exitCode, credVars, last_track_id, profile, retry_count,
                   sleep_time, data, procVars, now, calls, ens, cyc>>

signal_handler ==
    /\ pc # "stopped"
    /\ running' = FALSE
    /\ exitCode' = 0      \* sys.exit(0): SystemExit passes every `except Exception`
    /\ stopReason' = "signal"
    /\ pc' = "stopped"
    /\ hist' = [hist EXCEPT !.sigAt = pc, !.sigRetry = retry_count]
    /\ UNCHANGED <<credVars, last_track_id, profile, retry_count,
                   sleep_time, data, procVars, now, calls, ens, cyc>>

Next ==
    \/ CycleStart
    \/ GetProfile
    \/ GetCurrentTrack
    \/ ProcessTrack
    \/ GetDominantColor
    \/ GetTotalScrobbles
    \/ SendDiscordWebhook
    \/ Sleep
    \/ signal_handler

Spec == Init /\ [][Next]_vars

\* ---------------------------------------------------------------------
\* Runs in which every delivery succeeds and every response is well
\* formed: renewals return a token, now-playing returns 204 or a complete
\* item (or fails as a request), Last.fm never answers with a non-object,
\* the webhook always answers 2xx.  The run keeps its totals.
\* ---------------------------------------------------------------------

GoodRenewals == [kind : {"ok"}, tok : Tokens, ttl : ExpiresIn]
GoodTracks ==
    {NoData} \cup [kind : {"item"}, id : TrackIds, wf : {TRUE}]
GoodScrobbles == ScrobbleOutcomes \ {"bad_shape"}
RequestError == [kind |-> "request_error", id |-> None, wf |-> FALSE]

ScenarioInit == InitWith([NoHist EXCEPT !.counting = TRUE])

ScenarioNext ==
    \/ CycleStart
    \/ GetProfileOn(GoodRenewals, {"ok", "request_error"})
    \/ GetCurrentTrackOn(GoodRenewals, GoodTracks \cup {RequestError})
    \/ ProcessTrack
    \/ GetDominantColorOn(ColorOutcomes)
    \/ GetTotalScrobblesOn(GoodScrobbles)
    \/ SendDiscordWebhookOn({TRUE})
    \/ SleepUntil(ScenarioMaxTime)

ScenarioSpec == ScenarioInit /\ [][ScenarioNext]_vars

\* ---------------------------------------------------------------------
\* Runs without an interrupt in which, from time StableFrom on, every
\* remote call succeeds and now-playing keeps returning the same complete
\* track; before that the services answer as they like.  Every call has a
\* timeout and the loop is the only thread, so a step that can be taken
\* is taken: weak fairness on the loop's steps.
\* ---------------------------------------------------------------------

StableTrack == [kind |-> "item", id |-> NTracks, wf |-> TRUE]
Stable == now >= StableFrom

LiveNext ==
    \/ CycleStart
    \/ GetProfileOn(IF Stable THEN GoodRenewals ELSE RenewalResponses,
                    IF Stable THEN {"ok"} ELSE ProfileResponses)
    \/ GetCurrentTrackOn(IF Stable THEN GoodRenewals ELSE RenewalResponses,
                         IF Stable THEN {StableTrack} ELSE TrackResponses)
    \/ ProcessTrack
    \/ GetDominantColorOn(IF Stable THEN {"ok"} ELSE ColorOutcomes)
    \/ GetTotalScrobblesOn(IF Stable THEN {"ok"} ELSE ScrobbleOutcomes)
    \/ SendDiscordWebhookOn(IF Stable THEN {TRUE} ELSE BOOLEAN)
    \/ SleepUntil(LiveMaxTime)

LiveSpec == Init /\ [][LiveNext]_vars /\ WF_vars(LiveNext)

TypeOK ==
    /\ pc \in {"top", "profile", "poll", "process", "color", "scrobbles",
               "webhook", "sleep", "stopped"}
    /\ running \in BOOLEAN
    /\ exitCode \in {-1, 0, 1}
    /\ access_token \in {None} \cup Tokens
    /\ headers \in {None} \cup Tokens
    /\ last_track_id \in {None} \cup TrackIds
    /\ retry_count \in 0..MAX_RETRIES
    /\ now \in 0..MaxTime

\* ---------------------------------------------------------------------
\* Properties
\* ---------------------------------------------------------------------

InCalls(x) == \E i \in 1..Len(calls) : calls[i] = x

C2_Claim ==
    [][ /\ (last_track_id' # last_track_id) =>
              (cyc'.sent = "ok" /\ cyc.sent = "none" /\ last_track_id' = cyc'.id)
        /\ (cyc'.sent = "fail" /\ cyc.sent = "none") =>
              last_track_id' = last_track_id
        /\ (cyc'.done /\ ~cyc.done /\ cyc'.wf /\ cyc'.retryOf # None
                /\ cyc'.id = cyc'.retryOf) =>
              (\E i \in 1..Len(calls') : calls'[i] = "webhook")
      ]_vars

\* C3: ensure_valid_token makes a renewal request if and only if no
\* credential is cached or now >= expiry - 300; with a fresh credential it
\* makes none.
C3_RenewIffStale ==
    ens.called =>
        /\ ens.requests \in {0, 1}
        /\ (ens.requests = 1) <=>
              \/ ens.tokBefore = None
              \/ ens.expBefore = NoExpiry
              \/ ens.at >= ens.expBefore - 300

C3_Witness ==
    /\ ens.called
    /\ ens.tokBefore # None
    /\ ens.at = ens.expBefore - 300
    /\ ens.requests = 1

\* C4 (as stated): whenever ensure_valid_token returned normally the
\* token's expiry is strictly later than now + 300.
C4_Original ==
    (ens.called /\ ens.raised = "none") => token_expiry > ens.at + 300

\* C4 (amended): whenever ensure_valid_token returned normally, the expiry
\* is strictly later than now + 300 if the cached credential was reused or
\* the renewal returned a time-to-live above 300; after a renewal the
\* expiry is exactly now + time-to-live.
C4_Amended ==
    (ens.called /\ ens.raised = "none") =>
        /\ (ens.requests = 0 \/ ens.ttl > 300) => token_expiry > ens.at + 300
        /\ (ens.requests = 1) => token_expiry = ens.at + ens.ttl

C4_Witness ==
    /\ ens.called
    /\ ens.raised = "none"
    /\ ens.requests = 0
    /\ token_expiry = ens.at + 315

\* C5: after a successful renewal access_token, token_expiry and the
\* Authorization header all belong to the credential of the response;
\* after a failed renewal, and after a call that did not renew, all three
\* are what they were before the call.
C5_CredentialAtomic ==
    ens.called =>
        IF ens.requests = 1 /\ ens.raised = "none"
        THEN /\ access_token = ens.tok
             /\ headers = ens.tok
             /\ token_expiry = ens.at + ens.ttl
        ELSE /\ access_token = ens.tokBefore
             /\ headers = ens.hdrBefore
             /\ token_expiry = ens.expBefore

C5_Witness ==
    /\ ens.called
    /\ ens.requests = 1
    /\ ens.raised # "none"
    /\ ens.tokBefore # None
    /\ access_token = ens.tokBefore

C7_Claim ==
    /\ (cyc.outcome = "exc" /\ stopReason = "none") => pc # "stopped"
    /\ hist.excStreak >= 3 => pc = "stopped"

\* C8: when the retry maximum is reached the process ends with a non-zero
\* exit status, unlike the status 0 of an interrupt-driven shutdown.
C8_Claim ==
    /\ stopReason = "exhausted" => (exitCode # -1 /\ exitCode # 0)
    /\ stopReason = "signal" => exitCode = 0

\* C9: a SIGINT/SIGTERM received at any point of the loop (mid-cycle,
\* sleeping after success, sleeping in backoff) stops the process with
\* exit status 0, and no step of the loop is taken after it.
C9_SignalStops ==
    [][ /\ (stopReason' = "signal") =>
              (pc' = "stopped" /\ exitCode' = 0 /\ ~running')
        /\ (stopReason = "signal") => UNCHANGED vars
      ]_vars

C9_Witness ==
    /\ stopReason = "signal"
    /\ pc = "stopped"
    /\ hist.sigAt = "sleep"
    /\ hist.sigRetry = 2

\* C10: each enrichment lookup returns a usable value on every failure
\* (0x1DB954, "0") and never raises into process_track, so a new
\* well-formed track always reaches the webhook request.
C10_Claim ==
    /\ cyc.color \in {"request_error", "decode_error"} => embed_color = 1947988
    /\ (cyc.scrobbles \in {"request_error", "bad_json", "bad_shape"}
            /\ pc \in {"webhook", "sleep"})
          => total_scrobbles = "0"
    /\ (cyc.done /\ cyc.wf /\ cyc.id # None /\ cyc.id # cyc.lastBefore)
          => InCalls("webhook")

\* C11: a response for a new identity whose expected fields are missing is
\* absorbed: no webhook request, last_track_id unchanged, the cycle ends as
\* a completed one (not in a handler of main), and the failure counter is
\* not incremented (it is 0 afterwards).
C11_ParseAbsorbed ==
    (cyc.seen /\ cyc.outcome # "running" /\ cyc.id # None
        /\ cyc.id # cyc.lastBefore /\ ~cyc.wf) =>
        /\ ~InCalls("webhook")
        /\ last_track_id = cyc.lastBefore
        /\ cyc.outcome = "ok"
        /\ retry_count = 0
        /\ stopReason # "exhausted"

C11_Witness ==
    /\ cyc.seen
    /\ cyc.done
    /\ cyc.id # None
    /\ cyc.lastBefore # None
    /\ cyc.id # cyc.lastBefore
    /\ ~cyc.wf
    /\ pc = "sleep"

\* C13 (as stated): the sleep after a completed cycle lasts
\* POLLING_INTERVAL when the query returned content (anything but 204) and
\* 2 x POLLING_INTERVAL when it returned no-content; the sleep after a
\* failed cycle lasts RETRY_DELAY; a cycle other than the first starts
\* after exactly one sleep.
C13_Original ==
    [][ /\ (pc = "sleep" /\ pc' = "top") =>
              now' - now =
                 IF cyc.outcome = "ok"
                 THEN (IF data.kind = "nocontent"
                       THEN 2 * POLLING_INTERVAL ELSE POLLING_INTERVAL)
                 ELSE RETRY_DELAY
        /\ (pc = "top" /\ pc' \in {"profile", "poll"}) =>
              (cyc.slept = 1 \/ cyc.outcome = "running")
      ]_vars

\* C13 (amended): as stated, except that the long sleep also follows a 200
\* response whose body is empty (falsy), not only a 204.
C13_Amended ==
    [][ /\ (pc = "sleep" /\ pc' = "top") =>
              now' - now =
                 IF cyc.outcome = "ok"
                 THEN (IF data.kind \in {"nocontent", "empty"}
                       THEN 2 * POLLING_INTERVAL ELSE POLLING_INTERVAL)
                 ELSE RETRY_DELAY
        /\ (pc = "top" /\ pc' \in {"profile", "poll"}) =>
              (cyc.slept = 1 \/ cyc.outcome = "running")
      ]_vars

C13_Witness ==
    /\ pc = "top"
    /\ cyc.slept = 1
    /\ cyc.outcome = "ok"
    /\ data.kind = "empty"
    /\ now = 2 * POLLING_INTERVAL

CallPcs == {"profile", "poll", "color", "scrobbles", "webhook"}

\* C15 (as stated): a signal that arrives while a remote call is in flight
\* only clears running; the process goes on from where it was, and it
\* stops only at the loop's test of the flag.
C15_Original ==
    [][ /\ (stopReason' = "signal" /\ stopReason = "none" /\ pc \in CallPcs) =>
              (~running' /\ pc' = pc /\ exitCode' = -1)
        /\ (pc' = "stopped" /\ pc # "stopped" /\ stopReason' = "signal") =>
              pc = "top"
      ]_vars

\* C15 (amended): a signal clears running and ends the process at once
\* with status 0, wherever the loop is: a remote call in flight is
\* abandoned and nothing it would have changed is changed.
C15_Amended ==
    [][ (stopReason' = "signal" /\ stopReason = "none") =>
            /\ ~running'
            /\ pc' = "stopped"
            /\ exitCode' = 0
            /\ calls' = calls
            /\ UNCHANGED <<credVars, last_track_id, profile, retry_count>>
      ]_vars

C15_Witness ==
    /\ stopReason = "signal"
    /\ hist.sigAt = "webhook"
    /\ pc = "stopped"
    /\ ~InCalls("webhook")
    /\ last_track_id # track_id

\* C16: a cycle whose only failure is send_discord_webhook returning false
\* is a completed cycle: the failure counter is 0 after it and the loop has
\* not left through the retry limit.
C16_DeliveryFailureCompletes ==
    cyc.sent = "fail" =>
        /\ cyc.outcome = "ok"
        /\ retry_count = 0
        /\ hist.reqSinceOk = 0
        /\ stopReason # "exhausted"

C16_Witness ==
    /\ cyc.sent = "fail"
    /\ cyc.retryOf = cyc.id
    /\ pc = "sleep"

CallIndex(x) == CHOOSE i \in 1..Len(calls) : calls[i] = x

\* C17: a cycle whose response has no identity or the last notified one
\* makes no album-art, Last.fm or webhook request and leaves last_track_id
\* alone; in a cycle for a new track both lookups have returned before the
\* webhook request is made, and last_track_id changes only after it.
C17_OnlyOnChangeInOrder ==
    /\ (cyc.seen /\ (cyc.id = None \/ cyc.id = cyc.lastBefore)) =>
          /\ ~InCalls("art") /\ ~InCalls("lastfm") /\ ~InCalls("webhook")
          /\ last_track_id = cyc.lastBefore
    /\ pc = "webhook" => (InCalls("art") /\ InCalls("lastfm"))
    /\ InCalls("webhook") =>
          /\ InCalls("art") /\ InCalls("lastfm")
          /\ CallIndex("art") < CallIndex("webhook")
          /\ CallIndex("lastfm") < CallIndex("webhook")
    /\ (cyc.seen /\ last_track_id # cyc.lastBefore) =>
          (InCalls("webhook") /\ cyc.sent = "ok" /\ last_track_id = cyc.id)

C17_Witness ==
    /\ cyc.sent = "ok"
    /\ cyc.lastBefore # None
    /\ last_track_id = cyc.id
    /\ InCalls("art") /\ InCalls("lastfm") /\ InCalls("webhook")

\* C18: a cycle that ends in the generic handler of main leaves
\* retry_count as it was; retry_count stays within 0..MAX_RETRIES, and the
\* loop is left in the very step in which it reaches MAX_RETRIES.
C18_GenericKeepsCounter ==
    [][ /\ (cyc'.outcome = "exc" /\ cyc.outcome = "running") =>
              retry_count' = retry_count
        /\ retry_count' \in 0..3
        /\ (retry_count' = 3) <=> (stopReason' = "exhausted")
        /\ (stopReason' = "exhausted") => pc' = "stopped"
      ]_vars

C18_Witness ==
    /\ cyc.outcome = "exc"
    /\ hist.excStreak >= 1
    /\ retry_count = 2
    /\ pc = "sleep"

\* C20: as long as the profile has not been fetched no now-playing,
\* album-art, Last.fm or webhook request is made; and when the fetch fails
\* with a request error 3 cycles in a row the loop is left without ever
\* having polled playback.
C20_ProfileFirst ==
    ~profile =>
        /\ \A i \in 1..Len(calls) : calls[i] \in {"renew", "profile"}
        /\ pc \notin {"poll", "process", "color", "scrobbles", "webhook"}
        /\ ~cyc.seen
        /\ last_track_id = None
        /\ hist.reqRun >= 3 => stopReason = "exhausted"

C20_Witness ==
    /\ ~profile
    /\ stopReason = "exhausted"
    /\ hist.reqRun = 3
    /\ InCalls("profile")

\* C12: when every delivery succeeds and responses are well formed, the
\* number of webhook requests made so far equals the number of cycles whose
\* identity differed from last_track_id; a no-content cycle sends nothing
\* and leaves last_track_id alone; and the runs (no-content, no-content,
\* t1), (t1, t1, t1) and (t1, no-content, t1) each make exactly one
\* request, which carries t1's fields.
C12_OneCallPerChange ==
    /\ pc \notin {"color", "scrobbles", "webhook"} =>
          hist.webhooks = hist.changes
    /\ (cyc.seen /\ data.kind = "nocontent") =>
          (~InCalls("webhook") /\ last_track_id = cyc.lastBefore)
    /\ (cyc.done /\ hist.trace \in {<<None, None, 1>>, <<1, 1, 1>>, <<1, None, 1>>}) =>
          (hist.webhooks = 1 /\ last_track_id = 1)
    /\ cyc.sent = "ok" => cyc.payload.track = cyc.id
    /\ (cyc.done /\ hist.trace = <<None, None, 1>>) =>
          (cyc.sent = "ok" /\ cyc.payload.track = 1)

C12_Witness ==
    /\ cyc.done
    /\ hist.trace = <<None, None, 1>>
    /\ hist.webhooks = 1
    /\ cyc.payload.track = 1

\* C19: if from some time on every remote call succeeds and now-playing
\* keeps returning the same complete track A, then, the loop still running
\* and no interrupt arriving, last_track_id eventually becomes A; every
\* webhook request made in that period notifies A, so at most one is made,
\* and once last_track_id is A no further request is made and it stays A.
C19_EventuallyNotifiedOnce ==
    /\ (Stable /\ pc # "stopped") ~> (last_track_id = StableTrack.id)
    /\ [][ /\ (Stable /\ pc = "webhook" /\ pc' # "webhook") =>
                 last_track_id' = StableTrack.id
           /\ (Stable /\ last_track_id = StableTrack.id) =>
                 /\ last_track_id' = last_track_id
                 /\ pc' # "webhook"
                 /\ Len(calls') > Len(calls) => calls'[Len(calls')] # "webhook"
         ]_vars

C19_Witness ==
    /\ now >= StableFrom + POLLING_INTERVAL
    /\ cyc.done
    /\ cyc.id = StableTrack.id
    /\ cyc.lastBefore = StableTrack.id
    /\ last_track_id = StableTrack.id
    /\ ~InCalls("webhook")
====
